---------------------------- MODULE Spec2Model ----------------------------
(***************************************************************************)
(* SimDock Pro: the local database (Dexie tables and repositories), the    *)
(* App component's receptor/docking handlers, the dockingService singleton *)
(* and the public vinaWorker, as state machines.                           *)
(*                                                                         *)
(* Primary keys are UUIDs in the code: here a key is an integer drawn      *)
(* nondeterministically from the keys never used before, so key order (the *)
(* order Dexie returns rows in) is unrelated to creation order, and a key  *)
(* is never reused.  undefined is modelled by NoId (keys) and NoVal (other *)
(* fields).                                                                *)
(***************************************************************************)
EXTENDS Integers, Sequences, FiniteSets, TLC

\* ------------------------------------------------------------------------
\* Bounds of the model
\* ------------------------------------------------------------------------
MaxReceptorId == 3
MaxProjectId == 2
MaxJobId == 2
MaxResultId == 2
MaxLigandId == 1
MaxProjReceptors == 1
MaxAppReceptors == 2
MaxAppJobs == 1
MaxCalls == 2
MaxPosts == 3
MaxSavedId == 2
MaxPjCalls == 4
MaxPrints == 2
MaxPending == 1

NoId == 0
NoVal == "none"
Uploaded == NoId     \* receptorId / receptorVersionId 'uploaded'

ReceptorIds == 1..MaxReceptorId
ProjectIds == 1..MaxProjectId
JobIds == 1..MaxJobId
ResultIds == 1..MaxResultId
LigandIds == 1..MaxLigandId

ReceptorNames == {"recA", "recB"}

VARIABLES
    projects,        \* db.projects: id -> [name]
    receptors,       \* db.receptors: id -> Receptor
    ligands,         \* db.ligands: id -> [projectId]
    dockingJobs,     \* db.dockingJobs: id -> DockingJob
    dockingResults,  \* db.dockingResults: id -> [jobId]
    usedIds,         \* keys generated so far, per table
    lastOp,          \* the operation performed by the last step, with its arguments and result
    \* App component state (useState)
    selectedProject, \* id of the selected project, NoId for null
    selectedReceptor,\* id of the receptor object held in state, NoId for null
    receptorContent, \* "" when nothing is loaded
    receptorName,
    ligandContent,
    isDocking,
    \* dockingService singleton
    svcCallbacks,    \* this.callbacks: the call that passed them, NoId for {}
    currentJobId,    \* this.currentJobId, NoId for null
    isRunning,       \* this.isRunning
    svcCalls,        \* number of runDocking calls made so far
    svcRuns,         \* accepted runs: call -> [pc, jobId, receptor, ligand, error]
    workers,         \* docking workers created and not terminated
    workersCreated,  \* number of new Worker(...) so far
    cbLog,           \* onComplete / onError invocations: <<[owner, kind, msg]>>
    \* public/vinaWorker.js
    wIsRunning,      \* let isRunning
    wInbox,          \* messages posted to the worker and not yet handled
    wRuns,           \* runDocking invocations: run -> pc
    wOut,            \* messages posted by the worker, oldest first
    wSent,           \* number of messages posted to the worker so far
    \* webvina projectService (IndexedDB store 'projects')
    pjStore,         \* the object store: id -> SavedProject
    pjLog,           \* the saveProject / deleteProject calls made so far, oldest first
    \* webvina webinaBridge: one call of runWebinaVina
    brPc,            \* where the executor of executionPromise stands
    brListens,       \* the caller passed callbacks with onStderr or onStdout
    brTimer,         \* the safety timer: "none", "armed", "cleared", "fired"
    brExec,          \* executionPromise: [state, value]
    brStdout,        \* capturedStdout, as lines
    brInit,          \* initializedObj is set
    brExit,          \* parseVinaOutput of the outputs at Vina's exit, once it has exited
    brThrew,         \* loading or running the module threw
    \* db.ts createReceptorVersion
    rvPending,       \* calls that have read their parent and not yet added the new version
    \* gridboxCalculator: one call of calculateGridboxFromCoords
    gbCoords,        \* the argument coords
    gbPadding,       \* the argument padding
    gbBox,           \* what the call returned, <<>> before it
    \* pdbqtConverter: one call of convertToPDBQT(content)
    cvContent,       \* the argument content, as lines
    cvResult         \* what the call returned or threw, <<>> before it

dbVars == <<projects, receptors, ligands, dockingJobs, dockingResults, usedIds>>
appDataVars == <<selectedProject, selectedReceptor, receptorContent, receptorName, ligandContent>>
appVars == <<appDataVars, isDocking>>
svcVars == <<svcCallbacks, currentJobId, isRunning, svcCalls, svcRuns, workers, workersCreated,
             cbLog>>
wkVars == <<wIsRunning, wInbox, wRuns, wOut, wSent>>
pjVars == <<pjStore, pjLog>>
brVars == <<brPc, brListens, brTimer, brExec, brStdout, brInit, brExit, brThrew>>
gbVars == <<gbCoords, gbPadding, gbBox>>
cvVars == <<cvContent, cvResult>>
fnVars == <<gbVars, cvVars>>
rvVars == <<rvPending>>
restVars == <<pjVars, brVars, fnVars, rvVars>>
simdockVars == <<dbVars, appVars, svcVars, wkVars>>
notPjVars == <<simdockVars, brVars, fnVars, rvVars>>
notBrVars == <<simdockVars, pjVars, fnVars, rvVars>>
otherVars == <<appVars, svcVars, wkVars, restVars>>
vars == <<dbVars, lastOp, appVars, svcVars, wkVars, restVars>>

\* ------------------------------------------------------------------------
\* Helpers over tables
\* ------------------------------------------------------------------------
Min(S) == CHOOSE x \in S : \A y \in S : x <= y

\* the keys of S in primary-key order, as toArray() returns them
RECURSIVE SortedSeq(_)
SortedSeq(S) == IF S = {} THEN <<>> ELSE <<Min(S)>> \o SortedSeq(S \ {Min(S)})

Range(s) == {s[i] : i \in 1..Len(s)}

Restrict(f, S) == [x \in S |-> f[x]]

Put(f, k, v) == [x \in DOMAIN f \cup {k} |-> IF x = k THEN v ELSE f[x]]

\* what the last call was: its name, its key argument, what it returned (keys),
\* the error it threw, and the content it passed on
OpData(name, arg, ret, err, data) ==
    [op |-> name, arg |-> arg, ret |-> ret, err |-> err, data |-> data]

Op(name, arg, ret, err) == OpData(name, arg, ret, err, NoVal)


\* a ?? b
Coalesce(a, b) == IF a = NoVal THEN b ELSE a

\* ------------------------------------------------------------------------
\* db.ts helpers and receptorRepository
\* ------------------------------------------------------------------------

\* receptorRepository.create: {...data, version: 1}, stored under a new key
receptorCreate(recs, data, newId) ==
    Put(recs, newId,
        [projectId |-> data.projectId, name |-> data.name, pdbId |-> data.pdbId,
         version |-> 1, parentVersionId |-> data.parentVersionId,
         pdbqtContent |-> data.pdbqtContent, gridbox |-> data.gridbox])

\* the highest version stored for a receptor name of a project
MaxVersion(recs, projectId, name) ==
    LET vs == {recs[r].version : r \in {x \in DOMAIN recs : /\ recs[x].projectId = projectId
                                                            /\ recs[x].name = name}}
    IN  CHOOSE v \in vs : \A w \in vs : w <= v

\* variant: numbers the new version after the latest version of the name
\* instead of after its parent
createReceptorVersion_LatestPlusOne(recs, parentId, updates, newId) ==
    LET parent == recs[parentId] IN
    Put(recs, newId,
        [projectId |-> parent.projectId, name |-> parent.name, pdbId |-> parent.pdbId,
         version |-> MaxVersion(recs, parent.projectId, parent.name) + 1,
         parentVersionId |-> parentId,
         pdbqtContent |-> Coalesce(updates.pdbqtContent, parent.pdbqtContent),
         gridbox |-> Coalesce(updates.gridbox, parent.gridbox)])

\* variant: takes the gridbox from updates only, without the parent's as default
createReceptorVersion_NoGridboxDefault(recs, parentId, updates, newId) ==
    LET parent == recs[parentId] IN
    Put(recs, newId,
        [projectId |-> parent.projectId, name |-> parent.name, pdbId |-> parent.pdbId,
         version |-> parent.version + 1, parentVersionId |-> parentId,
         pdbqtContent |-> Coalesce(updates.pdbqtContent, parent.pdbqtContent),
         gridbox |-> updates.gridbox])

\* createReceptorVersion, after the parent was found
createReceptorVersion(recs, parentId, updates, newId) ==
    LET parent == recs[parentId] IN
    Put(recs, newId,
        [projectId |-> parent.projectId, name |-> parent.name, pdbId |-> parent.pdbId,
         version |-> parent.version + 1, parentVersionId |-> parentId,
         pdbqtContent |-> Coalesce(updates.pdbqtContent, parent.pdbqtContent),
         gridbox |-> Coalesce(updates.gridbox, parent.gridbox)])

\* db.receptors.where('[projectId+name]').equals([projectId, name]).toArray()
VersionsOf(recs, projectId, name) ==
    SortedSeq({r \in DOMAIN recs : recs[r].projectId = projectId /\ recs[r].name = name})

\* Array.prototype.sort((a, b) => a.version - b.version): a stable sort
RECURSIVE InsertByVersion(_, _, _)
InsertByVersion(recs, sorted, r) ==
    IF sorted = <<>> THEN <<r>>
    ELSE IF recs[sorted[Len(sorted)]].version <= recs[r].version
         THEN Append(sorted, r)
         ELSE Append(InsertByVersion(recs, SubSeq(sorted, 1, Len(sorted) - 1), r),
                     sorted[Len(sorted)])

RECURSIVE SortByVersion(_, _)
SortByVersion(recs, s) ==
    IF s = <<>> THEN <<>>
    ELSE InsertByVersion(recs, SortByVersion(recs, SubSeq(s, 1, Len(s) - 1)), s[Len(s)])

\* variant: returns the versions in key order, without the sort
getReceptorVersionHistory_Unsorted(recs, receptorId) ==
    IF receptorId \notin DOMAIN recs THEN <<>>
    ELSE VersionsOf(recs, recs[receptorId].projectId, recs[receptorId].name)

\* getReceptorVersionHistory: the keys of the returned receptors, in order
getReceptorVersionHistory(recs, receptorId) ==
    IF receptorId \notin DOMAIN recs THEN <<>>
    ELSE SortByVersion(recs, VersionsOf(recs, recs[receptorId].projectId, recs[receptorId].name))

\* versions.reduce((latest, current) => current.version > latest.version ? current : latest)
RECURSIVE ReduceLatest(_, _, _)
ReduceLatest(recs, latest, rest) ==
    IF rest = <<>> THEN latest
    ELSE ReduceLatest(recs,
                      IF recs[Head(rest)].version > recs[latest].version THEN Head(rest) ELSE latest,
                      Tail(rest))

\* getLatestReceptorVersion: the key of the returned receptor, NoId for undefined
getLatestReceptorVersion(recs, projectId, name) ==
    LET versions == VersionsOf(recs, projectId, name) IN
    IF Len(versions) = 0 THEN NoId ELSE ReduceLatest(recs, Head(versions), Tail(versions))

\* variant: compares the versions the wrong way round
LatestByNameStep_Oldest(recs, latestByName, r) ==
    IF \E i \in 1..Len(latestByName) : recs[latestByName[i]].name = recs[r].name
    THEN LET i == CHOOSE j \in 1..Len(latestByName) : recs[latestByName[j]].name = recs[r].name IN
         IF recs[r].version < recs[latestByName[i]].version
         THEN [latestByName EXCEPT ![i] = r]
         ELSE latestByName
    ELSE Append(latestByName, r)

\* the loop body of getByProject: latestByName is a Map, kept as the sequence
\* of its values in insertion order (set() on an existing key keeps its place)
LatestByNameStep(recs, latestByName, r) ==
    IF \E i \in 1..Len(latestByName) : recs[latestByName[i]].name = recs[r].name
    THEN LET i == CHOOSE j \in 1..Len(latestByName) : recs[latestByName[j]].name = recs[r].name IN
         IF recs[r].version > recs[latestByName[i]].version
         THEN [latestByName EXCEPT ![i] = r]
         ELSE latestByName
    ELSE Append(latestByName, r)

RECURSIVE LatestByName(_, _, _)
LatestByName(recs, latestByName, all) ==
    IF all = <<>> THEN latestByName
    ELSE LatestByName(recs, LatestByNameStep(recs, latestByName, Head(all)), Tail(all))

\* receptorRepository.getByProject: the keys of the returned receptors, in order
getByProject(recs, projectId) ==
    LatestByName(recs, <<>>, SortedSeq({r \in DOMAIN recs : recs[r].projectId = projectId}))

\* receptorRepository.deleteAll
receptorDeleteAll(recs, projectId, name) ==
    Restrict(recs, {r \in DOMAIN recs : ~(recs[r].projectId = projectId /\ recs[r].name = name)})

\* ------------------------------------------------------------------------
\* projectRepository.delete: the five tables after the transaction
\* ------------------------------------------------------------------------
JobsOfProject(jobs, id) == {j \in DOMAIN jobs : jobs[j].projectId = id}

\* variant: leaves the results of the project's jobs in place
deleteResultsOf_None(results, jobs, id) == results

deleteResultsOf(results, jobs, id) ==
    Restrict(results, {r \in DOMAIN results : results[r].jobId \notin JobsOfProject(jobs, id)})

deleteByProjectId(table, id) ==
    Restrict(table, {k \in DOMAIN table : table[k].projectId # id})

deleteKey(table, id) == Restrict(table, DOMAIN table \ {id})

\* ------------------------------------------------------------------------
\* Repository calls as actions
\* ------------------------------------------------------------------------
Fresh(table, Ids) == Ids \ usedIds[table]

UseId(table, id) == [usedIds EXCEPT ![table] = @ \cup {id}]

\* the receptor files callers create receptors from: a PDB entry with a
\* gridbox and an uploaded file without
ReceptorFiles ==
    {[name |-> "recA", pdbId |-> "1ABC", pdbqtContent |-> "pdbqtA", gridbox |-> "G1"],
     [name |-> "recB", pdbId |-> NoVal, pdbqtContent |-> "pdbqtB", gridbox |-> NoVal]}

\* callers of create pass no parentVersionId (App.saveReceptor)
ReceptorData ==
    {[projectId |-> p, name |-> f.name, pdbId |-> f.pdbId, parentVersionId |-> NoId,
      pdbqtContent |-> f.pdbqtContent, gridbox |-> f.gridbox] :
        p \in ProjectIds, f \in ReceptorFiles}

GridboxInputs == {"G2"}

VersionUpdates == [pdbqtContent : {NoVal, "pdbqtC"}, gridbox : {NoVal} \cup GridboxInputs]

ReceptorCreate(data, newId) ==
    /\ newId \in Fresh("receptors", ReceptorIds)
    /\ receptors' = receptorCreate(receptors, data, newId)
    /\ usedIds' = UseId("receptors", newId)
    /\ lastOp' = Op("create", NoId, <<newId>>, NoVal)
    /\ UNCHANGED <<projects, ligands, dockingJobs, dockingResults>>
    /\ UNCHANGED otherVars

\* variant: returns quietly when the parent is missing
CreateVersionCall_Silent(opName, parentId, updates, newId) ==
    IF parentId \notin DOMAIN receptors
    THEN /\ lastOp' = Op(opName, parentId, <<>>, NoVal)
         /\ UNCHANGED <<dbVars, otherVars>>
    ELSE /\ newId \in Fresh("receptors", ReceptorIds)
         /\ receptors' = createReceptorVersion(receptors, parentId, updates, newId)
         /\ usedIds' = UseId("receptors", newId)
         /\ lastOp' = Op(opName, parentId, <<newId>>, NoVal)
         /\ UNCHANGED <<projects, ligands, dockingJobs, dockingResults>>
         /\ UNCHANGED otherVars

\* receptorRepository.createVersion -> createReceptorVersion
CreateVersionCall(opName, parentId, updates, newId) ==
    IF parentId \notin DOMAIN receptors
    THEN /\ lastOp' = Op(opName, parentId, <<>>, "Parent receptor not found")
         /\ UNCHANGED <<dbVars, otherVars>>
    ELSE /\ newId \in Fresh("receptors", ReceptorIds)
         /\ receptors' = createReceptorVersion(receptors, parentId, updates, newId)
         /\ usedIds' = UseId("receptors", newId)
         /\ lastOp' = Op(opName, parentId, <<newId>>, NoVal)
         /\ UNCHANGED <<projects, ligands, dockingJobs, dockingResults>>
         /\ UNCHANGED otherVars

CreateVersion(parentId, updates, newId) ==
    CreateVersionCall("createVersion", parentId, updates, newId)

\* variant: writes the gridbox into the stored receptor
UpdateGridbox_InPlace(receptorId, gridbox, newId) ==
    /\ receptorId \in DOMAIN receptors
    /\ receptors' = [receptors EXCEPT ![receptorId].gridbox = gridbox]
    /\ lastOp' = Op("updateGridbox", receptorId, <<receptorId>>, NoVal)
    /\ UNCHANGED <<projects, ligands, dockingJobs, dockingResults, usedIds>>
    /\ UNCHANGED otherVars

\* receptorRepository.updateGridbox: this.createVersion(receptorId, { gridbox })
UpdateGridbox(receptorId, gridbox, newId) ==
    CreateVersionCall("updateGridbox", receptorId,
                      [pdbqtContent |-> NoVal, gridbox |-> gridbox], newId)

DeleteAll(projectId, name) ==
    /\ receptors' = receptorDeleteAll(receptors, projectId, name)
    /\ lastOp' = Op("deleteAll", projectId, <<>>, NoVal)
    /\ UNCHANGED <<projects, ligands, dockingJobs, dockingResults, usedIds>>
    /\ UNCHANGED otherVars

GetByProject(projectId) ==
    /\ lastOp' = Op("getByProject", projectId, getByProject(receptors, projectId), NoVal)
    /\ UNCHANGED <<dbVars, otherVars>>

GetVersionHistory(receptorId) ==
    /\ lastOp' = Op("getVersionHistory", receptorId,
                    getReceptorVersionHistory(receptors, receptorId), NoVal)
    /\ UNCHANGED <<dbVars, otherVars>>

ProjectCreate(newId) ==
    /\ newId \in Fresh("projects", ProjectIds)
    /\ projects' = Put(projects, newId, [name |-> "project"])
    /\ usedIds' = UseId("projects", newId)
    /\ lastOp' = Op("projectCreate", NoId, <<>>, NoVal)
    /\ UNCHANGED <<receptors, ligands, dockingJobs, dockingResults>>
    /\ UNCHANGED otherVars

ProjectDelete(id) ==
    /\ dockingResults' = deleteResultsOf(dockingResults, dockingJobs, id)
    /\ dockingJobs' = deleteByProjectId(dockingJobs, id)
    /\ ligands' = deleteByProjectId(ligands, id)
    /\ receptors' = deleteByProjectId(receptors, id)
    /\ projects' = deleteKey(projects, id)
    /\ lastOp' = Op("projectDelete", id, <<>>, NoVal)
    /\ UNCHANGED <<usedIds, otherVars>>

LigandCreate(projectId, newId) ==
    /\ newId \in Fresh("ligands", LigandIds)
    /\ ligands' = Put(ligands, newId, [projectId |-> projectId])
    /\ usedIds' = UseId("ligands", newId)
    /\ lastOp' = Op("ligandCreate", NoId, <<>>, NoVal)
    /\ UNCHANGED <<projects, receptors, dockingJobs, dockingResults>>
    /\ UNCHANGED otherVars

\* dockingJobRepository.create: {...data, status: 'pending'}
jobCreate(jobs, data, newId) ==
    Put(jobs, newId, [projectId |-> data.projectId, receptorId |-> data.receptorId,
                      receptorVersionId |-> data.receptorVersionId, status |-> "pending"])

\* dockingJobRepository.updateStatus: update() of a missing key changes nothing
updateStatus(jobs, id, status) ==
    IF id \in DOMAIN jobs THEN [jobs EXCEPT ![id].status = status] ELSE jobs

JobCreate(data, newId) ==
    /\ newId \in Fresh("dockingJobs", JobIds)
    /\ dockingJobs' = jobCreate(dockingJobs, data, newId)
    /\ usedIds' = UseId("dockingJobs", newId)
    /\ lastOp' = Op("jobCreate", NoId, <<>>, NoVal)
    /\ UNCHANGED <<projects, receptors, ligands, dockingResults>>
    /\ UNCHANGED otherVars

\* dockingResultRepository.create
ResultCreate(jobId, newId) ==
    /\ newId \in Fresh("dockingResults", ResultIds)
    /\ dockingResults' = Put(dockingResults, newId, [jobId |-> jobId])
    /\ usedIds' = UseId("dockingResults", newId)
    /\ lastOp' = Op("resultCreate", NoId, <<>>, NoVal)
    /\ UNCHANGED <<projects, receptors, ligands, dockingJobs>>
    /\ UNCHANGED otherVars


\* ------------------------------------------------------------------------
\* Initial state: empty database, App and services as constructed
\* ------------------------------------------------------------------------
EmptyTable == <<>>

\* the values promises of the webinaBridge settle with: a DockingResult,
\* undefined, or an Error
DockingResult(kind, poses, rawOutput, logOutput) ==
    [kind |-> kind, poses |-> poses, rawOutput |-> rawOutput, logOutput |-> logOutput]

Undefined == DockingResult("undefined", 0, "", <<>>)

ErrorValue(kind) == DockingResult(kind, 0, "", <<>>)

Pending == [state |-> "pending", value |-> Undefined]

InitStores ==
    /\ projects = EmptyTable
    /\ receptors = EmptyTable
    /\ ligands = EmptyTable
    /\ dockingJobs = EmptyTable
    /\ dockingResults = EmptyTable
    /\ usedIds = [t \in {"projects", "receptors", "ligands", "dockingJobs", "dockingResults"} |-> {}]
    /\ lastOp = Op("init", NoId, <<>>, NoVal)
    /\ selectedProject = NoId
    /\ selectedReceptor = NoId
    /\ receptorContent = ""
    /\ receptorName = ""
    /\ ligandContent = ""
    /\ isDocking = FALSE
    /\ svcCallbacks = NoId
    /\ currentJobId = NoId
    /\ isRunning = FALSE
    /\ svcCalls = 0
    /\ svcRuns = EmptyTable
    /\ workers = {}
    /\ workersCreated = 0
    /\ cbLog = <<>>
    /\ wIsRunning = FALSE
    /\ wInbox = <<>>
    /\ wRuns = EmptyTable
    /\ wOut = <<>>
    /\ wSent = 0
    /\ pjStore = EmptyTable
    /\ pjLog = <<>>
    /\ brPc = "idle"
    /\ brListens = FALSE
    /\ brTimer = "none"
    /\ brExec = Pending
    /\ brStdout = <<>>
    /\ brInit = FALSE
    /\ brExit = <<>>
    /\ brThrew = FALSE
    /\ rvPending = <<>>

Init ==
    /\ InitStores
    /\ gbCoords = <<>>
    /\ gbPadding = 0
    /\ gbBox = <<>>
    /\ cvContent = <<>>
    /\ cvResult = <<>>

\* ------------------------------------------------------------------------
\* The receptor repository driven by arbitrary calls
\* ------------------------------------------------------------------------
NextRec ==
    \/ \E data \in ReceptorData, newId \in ReceptorIds : ReceptorCreate(data, newId)
    \/ \E parentId \in ReceptorIds, updates \in VersionUpdates, newId \in ReceptorIds :
           CreateVersion(parentId, updates, newId)
    \/ \E receptorId \in ReceptorIds, gridbox \in GridboxInputs, newId \in ReceptorIds :
           UpdateGridbox(receptorId, gridbox, newId)
    \/ \E projectId \in ProjectIds, name \in ReceptorNames : DeleteAll(projectId, name)
    \/ \E id \in ProjectIds : ProjectDelete(id)
    \/ \E projectId \in ProjectIds : GetByProject(projectId)
    \/ \E receptorId \in ReceptorIds : GetVersionHistory(receptorId)

SpecRec == Init /\ [][NextRec]_vars

\* ------------------------------------------------------------------------
\* The receptor repository driven by calls that overlap: createReceptorVersion
\* awaits db.receptors.get and then db.receptors.add, two requests between
\* which other calls reach the table
\* ------------------------------------------------------------------------
\* what the type of create's argument admits: a parentVersionId or none
ReceptorDataTyped ==
    {[data EXCEPT !.parentVersionId = parent] : data \in ReceptorData, parent \in {NoId, 1}}

\* createReceptorVersion up to the end of its first await
CreateVersionGet(opName, parentId, updates) ==
    /\ Len(rvPending) < MaxPending
    /\ IF parentId \notin DOMAIN receptors
       THEN /\ lastOp' = Op(opName, parentId, <<>>, "Parent receptor not found")
            /\ UNCHANGED rvPending
       ELSE /\ rvPending' = Append(rvPending, [parentId |-> parentId,
                                              parent |-> receptors[parentId],
                                              updates |-> updates])
            /\ lastOp' = Op("get", parentId, <<>>, NoVal)
    /\ UNCHANGED <<dbVars, appVars, svcVars, wkVars, pjVars, brVars, fnVars>>

\* createReceptorVersion from newVersion to its return: the new version is
\* built from the parent as it was read
CreateVersionAdd(i, newId) ==
    /\ i \in 1..Len(rvPending)
    /\ newId \in Fresh("receptors", ReceptorIds)
    /\ LET call == rvPending[i]
           asRead == Put(receptors, call.parentId, call.parent)
           newVersion == createReceptorVersion(asRead, call.parentId, call.updates, newId)[newId]
       IN  /\ receptors' = Put(receptors, newId, newVersion)
           /\ lastOp' = Op("add", call.parentId, <<newId>>, NoVal)
    /\ usedIds' = UseId("receptors", newId)
    /\ rvPending' = [j \in 1..(Len(rvPending) - 1) |->
                        IF j < i THEN rvPending[j] ELSE rvPending[j + 1]]
    /\ UNCHANGED <<projects, ligands, dockingJobs, dockingResults>>
    /\ UNCHANGED <<appVars, svcVars, wkVars, pjVars, brVars, fnVars>>

NextRecAsync ==
    \/ \E data \in ReceptorDataTyped, newId \in ReceptorIds : ReceptorCreate(data, newId)
    \/ \E parentId \in ReceptorIds, updates \in VersionUpdates :
           CreateVersionGet("createVersion", parentId, updates)
    \/ \E receptorId \in ReceptorIds, gridbox \in GridboxInputs :
           CreateVersionGet("updateGridbox", receptorId,
                            [pdbqtContent |-> NoVal, gridbox |-> gridbox])
    \/ \E i \in 1..MaxPending, newId \in ReceptorIds : CreateVersionAdd(i, newId)
    \/ \E projectId \in ProjectIds, name \in ReceptorNames : DeleteAll(projectId, name)
    \/ \E id \in ProjectIds : ProjectDelete(id)

SpecRecAsync == Init /\ [][NextRecAsync]_vars



\* ------------------------------------------------------------------------
\* All five tables driven by arbitrary repository calls
\* ------------------------------------------------------------------------
ProjReceptorData == {d \in ReceptorData : d.name = "recA"}

ProjJobData == [projectId : ProjectIds, receptorId : {Uploaded}, receptorVersionId : {Uploaded}]

NextProj ==
    \/ \E newId \in ProjectIds : ProjectCreate(newId)
    \/ \E id \in ProjectIds : ProjectDelete(id)
    \/ \E data \in ProjReceptorData, newId \in 1..MaxProjReceptors :
           ReceptorCreate(data, newId)
    \/ \E projectId \in ProjectIds, newId \in LigandIds : LigandCreate(projectId, newId)
    \/ \E data \in ProjJobData, newId \in JobIds : JobCreate(data, newId)
    \/ \E jobId \in JobIds, newId \in ResultIds : ResultCreate(jobId, newId)

SpecProj == Init /\ [][NextProj]_vars



\* ------------------------------------------------------------------------
\* dockingService (singleton).  A step is one event-loop task: the code from
\* an event up to the next await of a database request, timer or worker
\* message, with the promise continuations that run before the next task.
\* onLog and onProgress notifications are not recorded.  The callbacks the
\* App passes end with setIsDocking(false); a caller other than the App
\* never sets isDocking, which is FALSE for it throughout.
\* ------------------------------------------------------------------------
\* isPDBQT(content), on the contents used here
isPDBQT(content) == content \in {"pdbqtA", "pdbqtB", "pdbqtC", "ligandQ"}

\* convertToPDBQT(content, ...) returns for these contents and throws for the others
Converts(content) == content \in {"pdbP"}

Invoke(owner, kind, msg) == Append(cbLog, [owner |-> owner, kind |-> kind, msg |-> msg])

Runs == 1..MaxCalls

SetRun(run, pc) == [svcRuns EXCEPT ![run].pc = pc]

\* variant: takes over the callbacks before looking at isRunning
RunDockingEff_Overwrite(jobId, receptor, ligand) ==
    LET call == svcCalls + 1 IN
    /\ svcCalls' = call
    /\ svcCallbacks' = call
    /\ IF isRunning
       THEN /\ cbLog' = Invoke(call, "onError", "Docking already in progress")
            /\ UNCHANGED <<currentJobId, isRunning, svcRuns, workers, workersCreated>>
       ELSE /\ currentJobId' = jobId
            /\ isRunning' = TRUE
            /\ svcRuns' = Put(svcRuns, call, [pc |-> "awaitStatus", jobId |-> jobId,
                                              receptor |-> receptor, ligand |-> ligand,
                                              error |-> NoVal, catching |-> FALSE])
            /\ UNCHANGED <<workers, workersCreated, cbLog>>

\* runDocking up to its await: the effect on the service
RunDockingEff(jobId, receptor, ligand) ==
    LET call == svcCalls + 1 IN
    /\ svcCalls' = call
    /\ IF isRunning
       THEN /\ cbLog' = Invoke(call, "onError", "Docking already in progress")
            /\ UNCHANGED <<svcCallbacks, currentJobId, isRunning, svcRuns, workers,
                           workersCreated>>
       ELSE /\ svcCallbacks' = call
            /\ currentJobId' = jobId
            /\ isRunning' = TRUE
            /\ svcRuns' = Put(svcRuns, call, [pc |-> "awaitStatus", jobId |-> jobId,
                                              receptor |-> receptor, ligand |-> ligand,
                                              error |-> NoVal, catching |-> FALSE])
            /\ UNCHANGED <<workers, workersCreated, cbLog>>

RunDocking(jobId, receptor, ligand) ==
    /\ svcCalls < MaxCalls
    /\ RunDockingEff(jobId, receptor, ligand)
    /\ lastOp' = OpData("runDocking", jobId, <<>>, NoVal, receptor)
    /\ UNCHANGED <<dbVars, appVars, wkVars, restVars>>

\* await dockingJobRepository.updateStatus(jobId, 'running') completes; the
\* executeDocking timer is set
StatusRunningWritten(run) ==
    /\ run \in DOMAIN svcRuns
    /\ svcRuns[run].pc = "awaitStatus"
    /\ dockingJobs' = updateStatus(dockingJobs, svcRuns[run].jobId, "running")
    /\ svcRuns' = SetRun(run, "timer")
    /\ lastOp' = Op("statusRunningWritten", NoId, <<>>, NoVal)
    /\ UNCHANGED <<projects, receptors, ligands, dockingResults, usedIds>>
    /\ UNCHANGED <<svcCallbacks, currentJobId, isRunning, svcCalls, workers, workersCreated,
                   cbLog>>
    /\ UNCHANGED <<appVars, wkVars, restVars>>

\* the timer fires: executeDocking converts the inputs, which may throw out of
\* executeDocking, and otherwise creates the worker and posts the job to it
ExecuteDocking(run) ==
    /\ run \in DOMAIN svcRuns
    /\ svcRuns[run].pc = "timer"
    /\ IF \/ ~isPDBQT(svcRuns[run].receptor) /\ ~Converts(svcRuns[run].receptor)
          \/ ~isPDBQT(svcRuns[run].ligand) /\ ~Converts(svcRuns[run].ligand)
       THEN /\ svcRuns' = SetRun(run, "thrown")
            /\ UNCHANGED <<workers, workersCreated>>
       ELSE /\ svcRuns' = SetRun(run, "awaitWorker")
            /\ workers' = workers \cup {run}
            /\ workersCreated' = workersCreated + 1
    /\ lastOp' = Op("executeDocking", NoId, <<>>, NoVal)
    /\ UNCHANGED dbVars
    /\ UNCHANGED <<svcCallbacks, currentJobId, isRunning, svcCalls, cbLog>>
    /\ UNCHANGED <<appVars, wkVars, restVars>>

\* worker.onmessage with type 'complete': saveResults starts createBatch
WorkerComplete(run) ==
    /\ run \in workers
    /\ svcRuns[run].pc = "awaitWorker"
    /\ IF currentJobId = NoId
       THEN /\ svcRuns' = SetRun(run, "done")
            /\ workers' = workers \ {run}
       ELSE /\ svcRuns' = SetRun(run, "saving")
            /\ UNCHANGED workers
    /\ lastOp' = Op("workerComplete", NoId, <<>>, NoVal)
    /\ UNCHANGED dbVars
    /\ UNCHANGED <<svcCallbacks, currentJobId, isRunning, svcCalls, workersCreated, cbLog>>
    /\ UNCHANGED <<appVars, wkVars, restVars>>

\* createBatch ends.  Stored: updateStatus(currentJobId, 'completed') starts.
\* Failed: catch reports onError, finally resets isRunning, and the then()
\* of saveResults terminates the worker
SaveBatchDone(run, ok, newIds) ==
    /\ run \in DOMAIN svcRuns
    /\ svcRuns[run].pc = "saving"
    /\ IF ok
       THEN /\ newIds \subseteq Fresh("dockingResults", ResultIds)
            /\ dockingResults' =
                   [x \in DOMAIN dockingResults \cup newIds |->
                       IF x \in newIds THEN [jobId |-> currentJobId] ELSE dockingResults[x]]
            /\ usedIds' = [usedIds EXCEPT !["dockingResults"] = @ \cup newIds]
            /\ svcRuns' = SetRun(run, "savingStatus")
            /\ UNCHANGED <<isRunning, workers, cbLog, isDocking>>
       ELSE /\ newIds = {}
            /\ cbLog' = Invoke(svcCallbacks, "onError", "Failed to save results")
            /\ isDocking' = FALSE
            /\ isRunning' = FALSE
            /\ workers' = workers \ {run}
            /\ svcRuns' = SetRun(run, "done")
            /\ UNCHANGED <<dockingResults, usedIds>>
    /\ lastOp' = Op("saveBatchDone", NoId, <<>>, NoVal)
    /\ UNCHANGED <<projects, receptors, ligands, dockingJobs>>
    /\ UNCHANGED <<svcCallbacks, currentJobId, svcCalls, workersCreated>>
    /\ UNCHANGED <<appDataVars, wkVars, restVars>>

\* updateStatus(currentJobId, 'completed') ends: onComplete, finally resets
\* isRunning, and the then() of saveResults terminates the worker
SaveStatusDone(run) ==
    /\ run \in DOMAIN svcRuns
    /\ svcRuns[run].pc = "savingStatus"
    /\ dockingJobs' = updateStatus(dockingJobs, currentJobId, "completed")
    /\ cbLog' = Invoke(svcCallbacks, "onComplete", NoVal)
    /\ isDocking' = FALSE
    /\ isRunning' = FALSE
    /\ workers' = workers \ {run}
    /\ svcRuns' = SetRun(run, "done")
    /\ lastOp' = Op("saveStatusDone", NoId, <<>>, NoVal)
    /\ UNCHANGED <<projects, receptors, ligands, dockingResults, usedIds>>
    /\ UNCHANGED <<svcCallbacks, currentJobId, svcCalls, workersCreated>>
    /\ UNCHANGED <<appDataVars, wkVars, restVars>>

\* worker.onmessage with type 'error', or worker.onerror: the worker is
\* terminated, the promise rejects and the catch block starts
\* updateStatus(currentJobId, 'failed').  The worker posts 'error' in place
\* of 'complete'; an error event can come from the worker as long as it has
\* not been terminated, also while saveResults is under way
WorkerFailed(run, how) ==
    /\ run \in workers
    /\ how = "error" => svcRuns[run].pc = "awaitWorker"
    /\ workers' = workers \ {run}
    /\ LET pc == IF svcRuns[run].pc = "awaitWorker" THEN "failed" ELSE svcRuns[run].pc IN
       IF currentJobId = NoId
       THEN /\ cbLog' = Invoke(svcCallbacks, "onError", how)
            /\ isDocking' = FALSE
            /\ isRunning' = FALSE
            /\ svcRuns' = [svcRuns EXCEPT ![run].pc = IF pc = "failed" THEN "done" ELSE pc,
                                          ![run].error = how]
       ELSE /\ svcRuns' = [svcRuns EXCEPT ![run].pc = pc, ![run].error = how,
                                          ![run].catching = TRUE]
            /\ UNCHANGED <<cbLog, isRunning, isDocking>>
    /\ lastOp' = Op("workerFailed", NoId, <<>>, NoVal)
    /\ UNCHANGED dbVars
    /\ UNCHANGED <<svcCallbacks, currentJobId, svcCalls, workersCreated>>
    /\ UNCHANGED <<appDataVars, wkVars, restVars>>

\* updateStatus(currentJobId, 'failed') ends: onError, isRunning = false
CatchDone(run) ==
    /\ run \in DOMAIN svcRuns
    /\ svcRuns[run].catching
    /\ dockingJobs' = updateStatus(dockingJobs, currentJobId, "failed")
    /\ cbLog' = Invoke(svcCallbacks, "onError", svcRuns[run].error)
    /\ isDocking' = FALSE
    /\ isRunning' = FALSE
    /\ svcRuns' = [svcRuns EXCEPT ![run].pc = IF @ = "failed" THEN "done" ELSE @,
                                  ![run].catching = FALSE]
    /\ lastOp' = Op("catchDone", NoId, <<>>, NoVal)
    /\ UNCHANGED <<projects, receptors, ligands, dockingResults, usedIds>>
    /\ UNCHANGED <<svcCallbacks, currentJobId, svcCalls, workers, workersCreated>>
    /\ UNCHANGED <<appDataVars, wkVars, restVars>>

DockJobData == [projectId : {1}, receptorId : {Uploaded}, receptorVersionId : {Uploaded}]

\* the poses a run stores: none or one
PoseSets == {ids \in SUBSET ResultIds : Cardinality(ids) <= 1}

NextDock ==
    \/ \E data \in DockJobData, newId \in JobIds : JobCreate(data, newId)
    \/ \E jobId \in JobIds, receptor \in {"pdbqtA", "pdbP", "junk"},
          ligand \in {"ligandQ", "junk"} : RunDocking(jobId, receptor, ligand)
    \/ \E run \in Runs : StatusRunningWritten(run)
    \/ \E run \in Runs : ExecuteDocking(run)
    \/ \E run \in Runs : WorkerComplete(run)
    \/ \E run \in Runs, ok \in BOOLEAN, newIds \in PoseSets : SaveBatchDone(run, ok, newIds)
    \/ \E run \in Runs : SaveStatusDone(run)
    \/ \E run \in Runs, how \in {"error", "Worker Error"} : WorkerFailed(run, how)
    \/ \E run \in Runs : CatchDone(run)

SpecDock == Init /\ [][NextDock]_vars


\* ------------------------------------------------------------------------
\* App component: the handlers behind the buttons of the page
\* ------------------------------------------------------------------------
\* loadReceptors(projectId) on the table recs: what it leaves in
\* selectedReceptor, receptorContent and receptorName
loadReceptors(recs, projectId) ==
    LET data == getByProject(recs, projectId) IN
    IF Len(data) > 0
    THEN [selectedReceptor |-> data[1], receptorContent |-> recs[data[1]].pdbqtContent,
          receptorName |-> recs[data[1]].name]
    ELSE [selectedReceptor |-> selectedReceptor, receptorContent |-> receptorContent,
          receptorName |-> receptorName]

SetLoaded(loaded) ==
    /\ selectedReceptor' = loaded.selectedReceptor
    /\ receptorContent' = loaded.receptorContent
    /\ receptorName' = loaded.receptorName

\* createProject
AppCreateProject(newId) ==
    /\ newId \in Fresh("projects", ProjectIds)
    /\ projects' = Put(projects, newId, [name |-> "project"])
    /\ usedIds' = UseId("projects", newId)
    /\ lastOp' = Op("createProject", NoId, <<>>, NoVal)
    /\ UNCHANGED <<receptors, ligands, dockingJobs, dockingResults>>
    /\ UNCHANGED <<appVars, svcVars, wkVars, restVars>>

\* click on a project of the list: setSelectedProject, then the effect runs
\* loadReceptors
AppSelectProject(id) ==
    /\ id \in DOMAIN projects
    /\ selectedProject' = id
    /\ SetLoaded(loadReceptors(receptors, id))
    /\ lastOp' = Op("selectProject", NoId, <<>>, NoVal)
    /\ UNCHANGED <<ligandContent, isDocking>>
    /\ UNCHANGED <<dbVars, svcVars, wkVars, restVars>>

\* deleteProject
AppDeleteProject(id) ==
    /\ id \in DOMAIN projects
    /\ dockingResults' = deleteResultsOf(dockingResults, dockingJobs, id)
    /\ dockingJobs' = deleteByProjectId(dockingJobs, id)
    /\ ligands' = deleteByProjectId(ligands, id)
    /\ receptors' = deleteByProjectId(receptors, id)
    /\ projects' = deleteKey(projects, id)
    /\ selectedProject' = IF selectedProject = id THEN NoId ELSE selectedProject
    /\ lastOp' = Op("deleteProject", NoId, <<>>, NoVal)
    /\ UNCHANGED <<usedIds, selectedReceptor, receptorContent, receptorName, ligandContent,
                   isDocking>>
    /\ UNCHANGED <<svcVars, wkVars, restVars>>

\* handleReceptorFile and handleReceptorFetched: both set the content and the name
AppHandleReceptor(content, name) ==
    /\ selectedProject # NoId
    /\ receptorContent' = content
    /\ receptorName' = name
    /\ lastOp' = Op("handleReceptor", NoId, <<>>, NoVal)
    /\ UNCHANGED <<selectedProject, selectedReceptor, ligandContent, isDocking>>
    /\ UNCHANGED <<dbVars, svcVars, wkVars, restVars>>

\* handleLigandFile and handleLigandFetched
AppHandleLigand(content) ==
    /\ selectedProject # NoId
    /\ ligandContent' = content
    /\ lastOp' = Op("handleLigand", NoId, <<>>, NoVal)
    /\ UNCHANGED <<selectedProject, selectedReceptor, receptorContent, receptorName, isDocking>>
    /\ UNCHANGED <<dbVars, svcVars, wkVars, restVars>>

\* saveReceptor: receptorRepository.create, then loadReceptors
AppSaveReceptor(newId) ==
    /\ selectedProject # NoId
    /\ receptorContent # ""
    /\ receptorName # ""
    /\ newId \in Fresh("receptors", ReceptorIds)
    /\ receptors' = receptorCreate(receptors,
                        [projectId |-> selectedProject, name |-> receptorName,
                         pdbId |-> NoVal, parentVersionId |-> NoId,
                         pdbqtContent |-> receptorContent, gridbox |-> "G1"],
                        newId)
    /\ usedIds' = UseId("receptors", newId)
    /\ SetLoaded(loadReceptors(receptors', selectedProject))
    /\ lastOp' = Op("saveReceptor", NoId, <<>>, NoVal)
    /\ UNCHANGED <<projects, ligands, dockingJobs, dockingResults>>
    /\ UNCHANGED <<selectedProject, ligandContent, isDocking, svcVars, wkVars, restVars>>

\* startDocking: creates the job and calls dockingService.runDocking with the
\* content held in state; the button is disabled while isDocking
AppStartDocking(newId) ==
    /\ ~isDocking
    /\ receptorContent # ""
    /\ ligandContent # ""
    /\ selectedProject # NoId
    /\ newId \in Fresh("dockingJobs", JobIds)
    /\ svcCalls < MaxCalls
    /\ dockingJobs' = jobCreate(dockingJobs,
                          [projectId |-> selectedProject,
                           receptorId |-> IF selectedReceptor # NoId THEN selectedReceptor
                                          ELSE Uploaded,
                           receptorVersionId |-> IF selectedReceptor # NoId THEN selectedReceptor
                                                 ELSE Uploaded],
                          newId)
    /\ usedIds' = UseId("dockingJobs", newId)
    /\ RunDockingEff(newId, receptorContent, ligandContent)
    /\ isDocking' = ~isRunning
    /\ lastOp' = OpData("startDocking", newId, <<>>, NoVal, receptorContent)
    /\ UNCHANGED <<projects, receptors, ligands, dockingResults>>
    /\ UNCHANGED <<appDataVars, wkVars, restVars>>

\* files the user uploads or fetches
UploadedReceptors == {[name |-> "recA", content |-> "pdbqtA"],
                      [name |-> "recB", content |-> "pdbqtB"]}

NextApp ==
    \/ \E newId \in ProjectIds : AppCreateProject(newId)
    \/ \E id \in ProjectIds : AppSelectProject(id)
    \/ \E id \in ProjectIds : AppDeleteProject(id)
    \/ \E f \in UploadedReceptors : AppHandleReceptor(f.content, f.name)
    \/ \E content \in {"ligandQ"} : AppHandleLigand(content)
    \/ \E newId \in 1..MaxAppReceptors : AppSaveReceptor(newId)
    \/ \E newId \in 1..MaxAppJobs : AppStartDocking(newId)
    \/ \E run \in Runs : StatusRunningWritten(run)
    \/ \E run \in Runs : ExecuteDocking(run)
    \/ \E run \in Runs : WorkerComplete(run)
    \/ \E run \in Runs, ok \in BOOLEAN : SaveBatchDone(run, ok, {})
    \/ \E run \in Runs : SaveStatusDone(run)
    \/ \E run \in Runs : WorkerFailed(run, "error")
    \/ \E run \in Runs : CatchDone(run)

SpecApp == Init /\ [][NextApp]_vars


\* ------------------------------------------------------------------------
\* public/vinaWorker.js.  A step is one task of the worker: a message event,
\* or the settling of the awaited WEBINA_MODULE promise with the rest of
\* runDocking and of onmessage behind it.  The lines Vina prints during
\* callMain are not recorded.
\* ------------------------------------------------------------------------
Msg(type, run, percent, error) ==
    [type |-> type, run |-> run, percent |-> percent, error |-> error]

Log(run) == Msg("LOG", run, 0, NoVal)

Progress(run, percent) == Msg("PROGRESS", run, percent, NoVal)

Terminal(type, run, error) == Msg(type, run, 0, error)

\* runDocking from its start to the await of WEBINA_MODULE
RunStartMessages(run) ==
    <<Log(run), Log(run), Log(run), Log(run), Log(run), Progress(run, 10), Progress(run, 20)>>

\* runDocking after the await, by what happens to the module
RunRestMessages(run, outcome) ==
    CASE outcome = "initRejects" ->
             <<Log(run), Terminal("ERROR", run, "init")>>
      [] outcome = "callMainThrows" ->
             <<Log(run), Progress(run, 30), Log(run), Log(run), Terminal("ERROR", run, "callMain")>>
      [] outcome = "readFileThrows" ->
             <<Log(run), Progress(run, 30), Log(run), Log(run), Progress(run, 90),
               Log(run), Terminal("ERROR", run, "readFile")>>
      [] outcome = "ok" ->
             <<Log(run), Progress(run, 30), Log(run), Log(run), Progress(run, 90),
               Log(run), Progress(run, 100), Terminal("COMPLETE", run, NoVal)>>

WkOutcomes == {"initRejects", "callMainThrows", "readFileThrows", "ok"}

\* the main thread posts a message: a START (with or without its receptor,
\* ligand and config) or something else
WkPost(type, wellFormed) ==
    /\ wSent < MaxPosts
    /\ wSent' = wSent + 1
    /\ wInbox' = Append(wInbox, [type |-> type, wellFormed |-> wellFormed])
    /\ lastOp' = Op("workerPost", NoId, <<>>, NoVal)
    /\ UNCHANGED <<wIsRunning, wRuns, wOut>>
    /\ UNCHANGED <<dbVars, appVars, svcVars, restVars>>

\* variant: starts the docking without looking at isRunning
WkOnMessage_NoGuard ==
    /\ wInbox # <<>>
    /\ LET msg == Head(wInbox)
           run == Cardinality(DOMAIN wRuns) + 1
       IN  /\ wInbox' = Tail(wInbox)
           /\ lastOp' = OpData("workerOnMessage", NoId, <<>>, NoVal, msg.type)
           /\ IF msg.type # "START"
              THEN UNCHANGED <<wIsRunning, wRuns, wOut>>
              ELSE /\ wIsRunning' = TRUE
                   /\ IF msg.wellFormed
                      THEN /\ wOut' = wOut \o RunStartMessages(run)
                           /\ wRuns' = Put(wRuns, run, "awaitModule")
                      ELSE /\ wOut' = Append(wOut, Log(run))
                           /\ wRuns' = Put(wRuns, run, "rejected")
    /\ UNCHANGED wSent
    /\ UNCHANGED <<dbVars, appVars, svcVars, restVars>>

\* self.onmessage up to the await inside runDocking.  A START without its
\* receptor throws out of runDocking before the try block, after the first
\* log: the promise rejects and isRunning stays true
WkOnMessage ==
    /\ wInbox # <<>>
    /\ LET msg == Head(wInbox)
           run == Cardinality(DOMAIN wRuns) + 1
       IN  /\ wInbox' = Tail(wInbox)
           /\ lastOp' = OpData("workerOnMessage", NoId, <<>>, NoVal, msg.type)
           /\ IF msg.type # "START"
              THEN UNCHANGED <<wIsRunning, wRuns, wOut>>
              ELSE IF wIsRunning
              THEN /\ wOut' = Append(wOut, Terminal("ERROR", NoId, "Docking already in progress"))
                   /\ UNCHANGED <<wIsRunning, wRuns>>
              ELSE /\ wIsRunning' = TRUE
                   /\ IF msg.wellFormed
                      THEN /\ wOut' = wOut \o RunStartMessages(run)
                           /\ wRuns' = Put(wRuns, run, "awaitModule")
                      ELSE /\ wOut' = Append(wOut, Log(run))
                           /\ wRuns' = Put(wRuns, run, "rejected")
    /\ UNCHANGED wSent
    /\ UNCHANGED <<dbVars, appVars, svcVars, restVars>>

\* the WEBINA_MODULE promise settles: the rest of runDocking runs, then the
\* rest of onmessage resets isRunning
WkModuleSettled(run, outcome) ==
    /\ run \in DOMAIN wRuns
    /\ wRuns[run] = "awaitModule"
    /\ wOut' = wOut \o RunRestMessages(run, outcome)
    /\ wRuns' = [wRuns EXCEPT ![run] = "done"]
    /\ wIsRunning' = FALSE
    /\ lastOp' = Op("workerModuleSettled", run, <<>>, NoVal)
    /\ UNCHANGED <<wInbox, wSent>>
    /\ UNCHANGED <<dbVars, appVars, svcVars, restVars>>

NextWorker ==
    \/ \E type \in {"START", "STOP"}, wellFormed \in BOOLEAN : WkPost(type, wellFormed)
    \/ WkOnMessage
    \/ \E run \in 1..MaxPosts, outcome \in WkOutcomes : WkModuleSettled(run, outcome)

SpecWorker == Init /\ [][NextWorker]_vars

\* ------------------------------------------------------------------------
\* webvina projectService: an object store keyed by 'id' with an index on
\* 'username'.  Each call is one request on the store.
\* ------------------------------------------------------------------------
SavedIds == 1..MaxSavedId

Usernames == {"alice", "bob"}

Timestamps == {1, 2}

SavedProjects == [id : SavedIds, username : Usernames, timestamp : Timestamps]

\* Array.prototype.sort((a, b) => b.timestamp - a.timestamp): a stable sort,
\* done here by inserting each element behind the ones that do not come after it
RECURSIVE InsertByTimestamp_Asc(_, _)
InsertByTimestamp_Asc(sorted, p) ==
    IF sorted = <<>> THEN <<p>>
    ELSE IF p.timestamp - Head(sorted).timestamp < 0
         THEN <<p>> \o sorted
         ELSE <<Head(sorted)>> \o InsertByTimestamp_Asc(Tail(sorted), p)

RECURSIVE InsertByTimestamp(_, _)
InsertByTimestamp(sorted, p) ==
    IF sorted = <<>> THEN <<p>>
    ELSE IF Head(sorted).timestamp - p.timestamp < 0
         THEN <<p>> \o sorted
         ELSE <<Head(sorted)>> \o InsertByTimestamp(Tail(sorted), p)

RECURSIVE SortByTimestamp(_)
SortByTimestamp(all) ==
    IF all = <<>> THEN <<>>
    ELSE InsertByTimestamp(SortByTimestamp(SubSeq(all, 1, Len(all) - 1)), all[Len(all)])

\* db.getAllFromIndex(STORE_NAME, 'username', username): the records of the
\* index under that key, in primary-key order
getAllFromIndex(store, username) ==
    LET keys == SortedSeq({id \in DOMAIN store : store[id].username = username})
    IN  [i \in 1..Len(keys) |-> store[keys[i]]]

getProjects(store, username) == SortByTimestamp(getAllFromIndex(store, username))

loadProject(store, id) == IF id \in DOMAIN store THEN <<store[id]>> ELSE <<>>

SaveProject(project) ==
    /\ Len(pjLog) < MaxPjCalls
    /\ pjStore' = Put(pjStore, project.id, project)
    /\ pjLog' = Append(pjLog, [call |-> "saveProject", id |-> project.id, project |-> <<project>>])
    /\ lastOp' = Op("saveProject", project.id, <<>>, NoVal)
    /\ UNCHANGED notPjVars

DeleteProject(id) ==
    /\ Len(pjLog) < MaxPjCalls
    /\ pjStore' = Restrict(pjStore, DOMAIN pjStore \ {id})
    /\ pjLog' = Append(pjLog, [call |-> "deleteProject", id |-> id, project |-> <<>>])
    /\ lastOp' = Op("deleteProject", id, <<>>, NoVal)
    /\ UNCHANGED notPjVars

GetProjects(username) ==
    /\ lastOp' = OpData("getProjects", NoId, getProjects(pjStore, username), NoVal, username)
    /\ UNCHANGED <<notPjVars, pjVars>>

LoadProject(id) ==
    /\ lastOp' = Op("loadProject", id, loadProject(pjStore, id), NoVal)
    /\ UNCHANGED <<notPjVars, pjVars>>

NextProjectService ==
    \/ \E project \in SavedProjects : SaveProject(project)
    \/ \E id \in SavedIds : DeleteProject(id)
    \/ \E username \in Usernames : GetProjects(username)
    \/ \E id \in SavedIds : LoadProject(id)

SpecProjectService == Init /\ [][NextProjectService]_vars

\* ------------------------------------------------------------------------
\* webvina webinaBridge: one call of runWebinaVina.  A step is one task: the
\* call itself up to its first await, the settling of an awaited promise
\* with the code behind it, a line printed by Vina, Vina's exit, the safety
\* timer.
\* ------------------------------------------------------------------------
StdoutLines == {"header", "pose", "blank", "text"}

\* parseVinaOutput(output, pdbqtOutput): the poses are the lines starting
\* with a number inside a results table, which the header line opens and an
\* empty line closes
RECURSIVE CountPoses(_, _)
CountPoses(lines, inResultsTable) ==
    IF lines = <<>> THEN 0
    ELSE LET line == Head(lines) IN
         IF line = "header" THEN CountPoses(Tail(lines), TRUE)
         ELSE IF inResultsTable /\ line = "pose" THEN 1 + CountPoses(Tail(lines), TRUE)
         ELSE IF inResultsTable /\ line = "blank" THEN CountPoses(Tail(lines), FALSE)
         ELSE CountPoses(Tail(lines), inResultsTable)

parseVinaOutput(output, pdbqtOutput) ==
    DockingResult("result", CountPoses(output, FALSE), pdbqtOutput, output)

\* resolve(value) / reject(value) on a promise: the first one settles it
Settle(promise, state, value) ==
    IF promise.state = "pending" THEN [state |-> state, value |-> value] ELSE promise

\* what the async function runWebinaVina returns: its body ends without a
\* return statement, so the promise is fulfilled with undefined whatever
\* becomes of executionPromise
Returned(exec) == [state |-> "fulfilled", value |-> Undefined]

\* err(text) reads the undeclared name msg inside the calls of
\* callbacks.onStderr and callbacks.onStdout: it throws a ReferenceError
\* when the caller passed one of them
ErrThrows == brListens

\* the catch block at the end of the executor: err(...), then reject(e)
BrCatch ==
    /\ brThrew' = TRUE
    /\ IF ErrThrows
       THEN /\ brPc' = "dead"
            /\ UNCHANGED brExec
       ELSE /\ brPc' = "failed"
            /\ brExec' = Settle(brExec, "rejected", ErrorValue("error"))

BrCall(listens, sharedArrayBuffer) ==
    /\ brPc = "idle"
    /\ brListens' = listens
    /\ brTimer' = "armed"
    /\ brPc' = IF ~sharedArrayBuffer /\ listens THEN "dead" ELSE "import"
    /\ brExec' = Pending
    /\ lastOp' = Op("runWebinaVina", NoId, <<>>, NoVal)
    /\ UNCHANGED <<brStdout, brInit, brExit, brThrew>>
    /\ UNCHANGED notBrVars

BrImportSettled(outcome) ==
    /\ brPc = "import"
    /\ IF outcome = "ok"
       THEN /\ brPc' = "factory"
            /\ UNCHANGED <<brExec, brThrew>>
       ELSE BrCatch
    /\ lastOp' = OpData("importSettled", NoId, <<>>, NoVal, outcome)
    /\ UNCHANGED <<brListens, brTimer, brStdout, brInit, brExit>>
    /\ UNCHANGED notBrVars

\* moduleFactory(...) settles; on success preRun has written the input files
\* (or failed to) and the executor goes on to callMain
BrFactorySettled(outcome, fsWriteOk, main) ==
    /\ brPc = "factory"
    /\ IF outcome = "ok" /\ (fsWriteOk \/ ~ErrThrows) /\ main = "returns"
       THEN /\ brPc' = "running"
            /\ brInit' = fsWriteOk
            /\ UNCHANGED <<brExec, brThrew>>
       ELSE /\ brInit' = (outcome = "ok" /\ fsWriteOk)
            /\ BrCatch
    /\ lastOp' = OpData("factorySettled", NoId, <<>>, NoVal, outcome)
    /\ UNCHANGED <<brListens, brTimer, brStdout, brExit>>
    /\ UNCHANGED notBrVars

\* print(text) while Vina runs
BrPrint(line) ==
    /\ brPc = "running"
    /\ Len(brStdout) < MaxPrints
    /\ brStdout' = Append(brStdout, line)
    /\ lastOp' = OpData("print", NoId, <<>>, NoVal, line)
    /\ UNCHANGED <<brPc, brListens, brTimer, brExec, brInit, brExit, brThrew>>
    /\ UNCHANGED notBrVars

\* onExit(_code): clears the timer, reads /output.pdbqt and resolves; the
\* err(...) calls on a non-zero code and on a failed read come before resolve
BrOnExit(code, readOk) ==
    /\ brPc = "running"
    /\ brTimer' = IF brTimer = "armed" THEN "cleared" ELSE brTimer
    /\ brPc' = "exited"
    /\ IF ErrThrows /\ (code # 0 \/ (brInit /\ ~readOk))
       THEN UNCHANGED <<brExec, brExit>>
       ELSE LET outTxt == IF brInit /\ readOk THEN "MODEL" ELSE ""
                result == parseVinaOutput(brStdout, outTxt)
            IN  /\ brExit' = <<result>>
                /\ brExec' = Settle(brExec, "fulfilled", result)
    /\ lastOp' = Op("onExit", code, <<>>, NoVal)
    /\ UNCHANGED <<brListens, brStdout, brInit, brThrew>>
    /\ UNCHANGED notBrVars

\* the 45-second timer fires
BrTimeout ==
    /\ brTimer = "armed"
    /\ brTimer' = "fired"
    /\ brExec' = Settle(brExec, "rejected", ErrorValue("timeout"))
    /\ lastOp' = Op("timeout", NoId, <<>>, NoVal)
    /\ UNCHANGED <<brPc, brListens, brStdout, brInit, brExit, brThrew>>
    /\ UNCHANGED notBrVars

NextBridge ==
    \/ \E listens, sharedArrayBuffer \in BOOLEAN : BrCall(listens, sharedArrayBuffer)
    \/ \E outcome \in {"ok", "noDefault", "rejects"} : BrImportSettled(outcome)
    \/ \E outcome \in {"ok", "rejects"}, fsWriteOk \in BOOLEAN, main \in {"returns", "throws"} :
           BrFactorySettled(outcome, fsWriteOk, main)
    \/ \E line \in StdoutLines : BrPrint(line)
    \/ \E code \in {0, 1}, readOk \in BOOLEAN : BrOnExit(code, readOk)
    \/ BrTimeout

\* the promise runWebinaVina has returned to its caller
ReturnedPromise == IF brPc = "idle" THEN Pending ELSE Returned(brExec)

SpecBridge == Init /\ [][NextBridge]_vars

\* ========================================================================
\* Properties
\* ========================================================================
Stored == DOMAIN receptors

HasParent(r) == receptors[r].parentVersionId # NoId

RECURSIVE AncestorChain(_, _)
AncestorChain(recs, receptorId) ==
    IF receptorId \notin DOMAIN recs THEN <<>>
    ELSE Append(AncestorChain(recs, recs[receptorId].parentVersionId), receptorId)

C6_LatestOnly ==
    lastOp.op = "getByProject" =>
        LET ret == lastOp.ret
            inProject == {r \in Stored : receptors[r].projectId = lastOp.arg}
        IN  /\ Range(ret) \subseteq inProject
            /\ \A r \in inProject :
                   /\ Cardinality({i \in 1..Len(ret) : receptors[ret[i]].name = receptors[r].name}) = 1
                   /\ \E i \in 1..Len(ret) :
                          /\ receptors[ret[i]].name = receptors[r].name
                          /\ receptors[ret[i]].version >= receptors[r].version

\* a project with an older and a newer version of one name, whose key order
\* lists the newer first, and a receptor of another project
C6_Witness ==
    /\ lastOp.op = "getByProject"
    /\ Len(lastOp.ret) = 1
    /\ \E r \in Stored : /\ receptors[r].projectId = lastOp.arg
                         /\ receptors[r].version < receptors[lastOp.ret[1]].version
                         /\ r > lastOp.ret[1]
    /\ \E r \in Stored : receptors[r].projectId # lastOp.arg

\* C7: stored receptor versions are frozen: no repository call changes a field
\* of a receptor that stays stored, and updateGridbox(receptorId, gridbox)
\* leaves receptorId as it was and adds a new version of it with the gridbox.
C7_Frozen ==
    [][/\ \A r \in Stored \cap DOMAIN receptors' : receptors'[r] = receptors[r]
       /\ \A receptorId \in ReceptorIds, gridbox \in GridboxInputs, newId \in ReceptorIds :
            (receptorId \in Stored /\ UpdateGridbox(receptorId, gridbox, newId))
                => /\ receptorId \in DOMAIN receptors'
                   /\ newId \notin Stored
                   /\ DOMAIN receptors' = Stored \cup {newId}
                   /\ receptors'[newId].gridbox = gridbox
                   /\ receptors'[newId].parentVersionId = receptorId
      ]_vars

\* updateGridbox was applied to a receptor that had another gridbox
C7_Witness ==
    /\ lastOp.op = "updateGridbox"
    /\ lastOp.err = NoVal
    /\ receptors[lastOp.arg].gridbox = "G1"
    /\ receptors[lastOp.ret[1]].gridbox = "G2"

\* C8: createReceptorVersion with a parentId that is not stored throws
\* 'Parent receptor not found' and leaves the receptor table unchanged.
C8_ParentNotFound ==
    [][(lastOp'.op = "createVersion" /\ lastOp'.arg \notin Stored)
            => /\ lastOp'.err = "Parent receptor not found"
               /\ lastOp'.ret = <<>>
               /\ receptors' = receptors
               /\ usedIds' = usedIds
      ]_vars

\* createVersion was called with the key of a receptor deleted before, while
\* other receptors are stored
C8_Witness ==
    /\ lastOp.op = "createVersion"
    /\ lastOp.err = "Parent receptor not found"
    /\ lastOp.arg \in usedIds["receptors"]
    /\ Stored # {}


\* C2: projectRepository.delete(id) leaves no project id, no receptor, ligand
\* or docking job with projectId id and no docking result of a job that
\* belonged to the project, and leaves every other record unchanged.
C2_DeleteCascade ==
    [][lastOp'.op = "projectDelete" =>
         LET id == lastOp'.arg
             jobsOf == {j \in DOMAIN dockingJobs : dockingJobs[j].projectId = id}
         IN  /\ id \notin DOMAIN projects'
             /\ \A r \in DOMAIN receptors' : receptors'[r].projectId # id
             /\ \A l \in DOMAIN ligands' : ligands'[l].projectId # id
             /\ \A j \in DOMAIN dockingJobs' : dockingJobs'[j].projectId # id
             /\ \A x \in DOMAIN dockingResults' : dockingResults'[x].jobId \notin jobsOf
             /\ \A p \in DOMAIN projects \ {id} :
                    p \in DOMAIN projects' /\ projects'[p] = projects[p]
             /\ \A r \in DOMAIN receptors : receptors[r].projectId # id =>
                    r \in DOMAIN receptors' /\ receptors'[r] = receptors[r]
             /\ \A l \in DOMAIN ligands : ligands[l].projectId # id =>
                    l \in DOMAIN ligands' /\ ligands'[l] = ligands[l]
             /\ \A j \in DOMAIN dockingJobs : dockingJobs[j].projectId # id =>
                    j \in DOMAIN dockingJobs' /\ dockingJobs'[j] = dockingJobs[j]
             /\ \A x \in DOMAIN dockingResults : dockingResults[x].jobId \notin jobsOf =>
                    x \in DOMAIN dockingResults' /\ dockingResults'[x] = dockingResults[x]
      ]_vars

\* a delete that removed the project and its job, kept the job and the result
\* of another project, after results of both jobs had been stored
C2_Witness ==
    /\ lastOp.op = "projectDelete"
    /\ lastOp.arg \in usedIds["projects"] \ DOMAIN projects
    /\ DOMAIN projects # {}
    /\ Cardinality(usedIds["dockingJobs"]) = 2
    /\ Cardinality(DOMAIN dockingJobs) = 1
    /\ Cardinality(usedIds["dockingResults"]) = 2
    /\ Cardinality(DOMAIN dockingResults) = 1
    /\ \A x \in DOMAIN dockingResults : dockingResults[x].jobId \in DOMAIN dockingJobs


C3_JobDocksItsVersion ==
    lastOp.op = "startDocking" =>
        LET job == dockingJobs[lastOp.arg] IN
        job.receptorVersionId # Uploaded =>
            /\ job.receptorVersionId \in Stored
            /\ lastOp.data = receptors[job.receptorVersionId].pdbqtContent


WkActiveRuns == {run \in DOMAIN wRuns : wRuns[run] = "awaitModule"}

\* C10: the public vinaWorker runs at most one docking at a time: a START
\* handled while isRunning is true is answered with ERROR 'Docking already
\* in progress' and starts no second runDocking, and at no time are two
\* runDocking invocations waiting for their module.
C10_OneDockingAtATime ==
    /\ [][(lastOp'.op = "workerOnMessage" /\ lastOp'.data = "START" /\ wIsRunning)
              => /\ wOut' = Append(wOut, Terminal("ERROR", NoId, "Docking already in progress"))
                 /\ wRuns' = wRuns
                 /\ wIsRunning'
         ]_vars
    /\ [](Cardinality(WkActiveRuns) <= 1)

\* a START was turned away while a docking waited for its module, after an
\* earlier docking had completed
C10_Witness ==
    /\ lastOp.op = "workerOnMessage"
    /\ lastOp.data = "START"
    /\ wIsRunning
    /\ Cardinality(WkActiveRuns) = 1
    /\ \E run \in DOMAIN wRuns : wRuns[run] = "done"
    /\ wOut[Len(wOut)].error = "Docking already in progress"


\* the messages of one runDocking invocation, in the order they were posted
WkMessagesOf(run) == SelectSeq(wOut, LAMBDA m : m.run = run)

IsTerminal(m) == m.type \in {"COMPLETE", "ERROR"}

RECURSIVE LastSaved(_, _)
LastSaved(log, id) ==
    IF log = <<>> THEN <<>>
    ELSE IF log[Len(log)].id = id THEN log[Len(log)].project
         ELSE LastSaved(SubSeq(log, 1, Len(log) - 1), id)

\* C12: projectService keeps saved projects per user.  getProjects(username)
\* returns, each once, exactly the projects last saved under each id and not
\* since deleted whose username is the argument, ordered by timestamp
\* descending; loadProject(id) returns the project last saved under id, or
\* undefined when there is none or it was deleted.
C12_SavedProjects ==
    /\ lastOp.op = "getProjects" =>
           LET expected == {p \in SavedProjects :
                               LastSaved(pjLog, p.id) = <<p>> /\ p.username = lastOp.data}
           IN  /\ Range(lastOp.ret) = expected
               /\ Len(lastOp.ret) = Cardinality(expected)
               /\ \A i, j \in 1..Len(lastOp.ret) :
                      i <= j => lastOp.ret[i].timestamp >= lastOp.ret[j].timestamp
    /\ lastOp.op = "loadProject" => lastOp.ret = LastSaved(pjLog, lastOp.arg)

\* getProjects returned two projects of different timestamps after a project
\* was saved twice under one id and another was deleted
C12_Witness ==
    /\ lastOp.op = "getProjects"
    /\ Len(lastOp.ret) = 2
    /\ lastOp.ret[1].timestamp > lastOp.ret[2].timestamp
    /\ \E i, j \in 1..Len(pjLog) :
           /\ i < j
           /\ pjLog[i].call = "saveProject"
           /\ pjLog[j].call = "saveProject"
           /\ pjLog[i].id = pjLog[j].id
           /\ pjLog[i].project # pjLog[j].project
    /\ \E i \in 1..Len(pjLog) : pjLog[i].call = "deleteProject"


\* C13: the promise returned by runWebinaVina resolves with the
\* DockingResult parsed from the captured stdout and /output.pdbqt when
\* Vina's onExit fires, and rejects when the 45-second safety timeout fires
\* first or when loading or running the module throws: it is fulfilled only
\* after the exit and then with that result, it is fulfilled once Vina has
\* exited with no timeout or throw before, and it is rejected once the
\* timer has fired or the module has thrown.
C13_ReturnedPromise ==
    /\ ReturnedPromise.state = "fulfilled" =>
           /\ brExit # <<>>
           /\ ReturnedPromise.value = brExit[1]
    /\ (brExit # <<>> /\ brTimer # "fired" /\ ~brThrew) => ReturnedPromise.state = "fulfilled"
    /\ (brTimer = "fired" \/ brThrew) => ReturnedPromise.state = "rejected"


\* the runs whose docking is under way: accepted and still before their
\* worker, or with their worker alive
SvcActiveRuns ==
    {run \in DOMAIN svcRuns : svcRuns[run].pc \in {"awaitStatus", "timer"} \/ run \in workers}

\* C14: on the dockingService singleton at most one docking run and at most
\* one docking worker is active at any time, and isRunning is true for the
\* whole time between a run being accepted and its worker being terminated.
C14_SingleRun ==
    /\ Cardinality(SvcActiveRuns) <= 1
    /\ Cardinality(workers) <= 1
    /\ SvcActiveRuns # {} => isRunning


\* the callbacks invoked for a run: those of the call that was accepted
CallbacksOf(run) == SelectSeq(cbLog, LAMBDA c : c.owner = run)

\* nothing of the run is left to execute: no timer, worker, database request
\* or catch block of it is pending
SvcAtRest(run) ==
    /\ svcRuns[run].pc \in {"done", "thrown"}
    /\ ~svcRuns[run].catching

\* C15: every docking run accepted by dockingService.runDocking ends with
\* exactly one of its callbacks onComplete or onError invoked and isRunning
\* reset to false, whatever becomes of the conversion, the worker and the
\* saving of the results: a run never gets a second callback, and once no
\* step of any accepted run is pending each has had its callback and
\* isRunning is false.
C15_EveryRunEnds ==
    /\ \A run \in DOMAIN svcRuns : Len(CallbacksOf(run)) <= 1
    /\ (\A run \in DOMAIN svcRuns : SvcAtRest(run)) =>
           /\ \A run \in DOMAIN svcRuns : Len(CallbacksOf(run)) = 1
           /\ ~isRunning


\* C16: receptor parent pointers stay intact.  In every state reachable
\* through receptorRepository.create, createVersion, updateGridbox,
\* deleteAll and projectRepository.delete, each receptor with version
\* greater than 1 has a parentVersionId naming a stored receptor with the
\* same projectId and name and a version exactly one lower, and each
\* receptor made by create has version 1 and no parentVersionId.
C16_ParentPointers ==
    /\ \A r \in Stored :
           receptors[r].version > 1 =>
               LET parentId == receptors[r].parentVersionId IN
               /\ parentId \in Stored
               /\ receptors[parentId].projectId = receptors[r].projectId
               /\ receptors[parentId].name = receptors[r].name
               /\ receptors[parentId].version = receptors[r].version - 1
    /\ lastOp.op = "create" =>
           /\ receptors[lastOp.ret[1]].version = 1
           /\ receptors[lastOp.ret[1]].parentVersionId = NoId

\* ------------------------------------------------------------------------
\* gridboxCalculator: calculateGridboxFromCoords
\* ------------------------------------------------------------------------
\* Numbers are held as integers counting 1/Scale: n stands for n / Scale, so
\* that the halves of the midpoint and the hundredths the code rounds to are
\* exact.
Scale == 200
MinSize == 20

MaxCoords == 2
MaxCoord == 12
MaxPadding == 10

CoordValues == {c * Scale : c \in {-MaxCoord, 1, MaxCoord}}
Coordinates == [x : CoordValues, y : CoordValues, z : CoordValues]
CoordLists == UNION {[1..n -> Coordinates] : n \in 0..MaxCoords}
Paddings == {p * Scale : p \in {0, 3, MaxPadding}}

Max(S) == CHOOSE x \in S : \A y \in S : y <= x

\* Math.round of n / d for d > 0: the nearest integer, halves going up
Math_round(n, d) == (2 * n + d) \div (2 * d)

\* Math.round(v * 100) / 100 of the number v
RoundToHundredths(v) == Math_round(v * 100, Scale) * (Scale \div 100)

\* Math.round(v) of the number v
RoundToUnit(v) == Math_round(v, Scale) * Scale

\* Math.max(20, (max - min) + padding * 2), with one padding only
AxisSize_OnePadding(min, max, padding) ==
    LET size == (max - min) + padding IN
    IF size > MinSize * Scale THEN size ELSE MinSize * Scale

\* Math.max(20, (max - min) + padding * 2)
AxisSize(min, max, padding) ==
    LET size == (max - min) + padding * 2 IN
    IF size > MinSize * Scale THEN size ELSE MinSize * Scale

calculateGridboxFromCoords(coords, padding) ==
    IF Len(coords) = 0
    THEN [centerX |-> 0, centerY |-> 0, centerZ |-> 0,
          sizeX |-> MinSize * Scale, sizeY |-> MinSize * Scale,
          sizeZ |-> MinSize * Scale]
    ELSE LET minX == Min({coords[i].x : i \in 1..Len(coords)})
             maxX == Max({coords[i].x : i \in 1..Len(coords)})
             minY == Min({coords[i].y : i \in 1..Len(coords)})
             maxY == Max({coords[i].y : i \in 1..Len(coords)})
             minZ == Min({coords[i].z : i \in 1..Len(coords)})
             maxZ == Max({coords[i].z : i \in 1..Len(coords)})
             centerX == (minX + maxX) \div 2
             centerY == (minY + maxY) \div 2
             centerZ == (minZ + maxZ) \div 2
             sizeX == AxisSize(minX, maxX, padding)
             sizeY == AxisSize(minY, maxY, padding)
             sizeZ == AxisSize(minZ, maxZ, padding)
         IN  [centerX |-> RoundToHundredths(centerX),
              centerY |-> RoundToHundredths(centerY),
              centerZ |-> RoundToHundredths(centerZ),
              sizeX |-> RoundToUnit(sizeX),
              sizeY |-> RoundToUnit(sizeY),
              sizeZ |-> RoundToUnit(sizeZ)]

InitGridbox ==
    /\ InitStores
    /\ gbCoords \in CoordLists
    /\ gbPadding \in Paddings
    /\ gbBox = <<>>
    /\ cvContent = <<>>
    /\ cvResult = <<>>

CalculateGridbox ==
    /\ gbBox = <<>>
    /\ gbBox' = <<calculateGridboxFromCoords(gbCoords, gbPadding)>>
    /\ UNCHANGED <<gbCoords, gbPadding, cvVars, lastOp, simdockVars, pjVars, brVars, rvVars>>

NextGridbox == CalculateGridbox

SpecGridbox == InitGridbox /\ [][NextGridbox]_vars

Axes == {"x", "y", "z"}

CenterOf(box, axis) ==
    CASE axis = "x" -> box.centerX
      [] axis = "y" -> box.centerY
      [] axis = "z" -> box.centerZ

SizeOf(box, axis) ==
    CASE axis = "x" -> box.sizeX
      [] axis = "y" -> box.sizeY
      [] axis = "z" -> box.sizeZ

\* C17: the box of calculateGridboxFromCoords.  For a non-empty list of
\* integer coordinates and an integer padding >= 0 the returned center is,
\* on each axis, the midpoint of the smallest and the largest coordinate,
\* the returned size is max(20, extent + 2 * padding), so every size is at
\* least 20 and every input coordinate lies within center - size/2 and
\* center + size/2; for the empty list the box has center (0,0,0) and size
\* (20,20,20).
C17_Gridbox ==
    Len(gbBox) = 1 =>
        LET box == gbBox[1] IN
        IF Len(gbCoords) = 0
        THEN /\ \A axis \in Axes : CenterOf(box, axis) = 0
             /\ \A axis \in Axes : SizeOf(box, axis) = 20 * Scale
        ELSE \A axis \in Axes :
                 LET values == {gbCoords[i][axis] : i \in 1..Len(gbCoords)}
                     lo == Min(values)
                     hi == Max(values)
                     extent == hi - lo
                     center == CenterOf(box, axis)
                     size == SizeOf(box, axis)
                 IN  /\ 2 * center = lo + hi
                     /\ \/ size = 20 * Scale /\ extent + 2 * gbPadding <= 20 * Scale
                        \/ size = extent + 2 * gbPadding /\ size >= 20 * Scale
                     /\ size >= 20 * Scale
                     /\ \A v \in values :
                            /\ 2 * center - size <= 2 * v
                            /\ 2 * v <= 2 * center + size

\* a box of two coordinates and a positive padding with one axis at the
\* least size and another wider than it
C17_Witness ==
    /\ Len(gbBox) = 1
    /\ Len(gbCoords) = 2
    /\ gbPadding > 0
    /\ gbCoords[1].x # gbCoords[2].x
    /\ gbBox[1].sizeX > MinSize * Scale
    /\ gbBox[1].sizeY = MinSize * Scale
    /\ gbBox[1].centerZ < 0

\* ------------------------------------------------------------------------
\* pdbqtConverter: convertToPDBQT
\* ------------------------------------------------------------------------
\* A content is the sequence of its lines (content.split('\n')), and a line is
\* held by what the converter reads of it: what it starts with or contains,
\* its chain and residue name if it is an atom record, its atom count if
\* it is a counts line.
MaxLines == 5
MaxNumAtoms == 2

Line(kind, chainId, resName, numAtoms, marker) ==
    [kind |-> kind, chainId |-> chainId, resName |-> resName,
     numAtoms |-> numAtoms, marker |-> marker]

\* '', a line of other text, 'REMARK ... ATOM ...', '$$$$'
PlainLines ==
    {Line("blank", "", "", 0, FALSE), Line("text", "", "", 0, FALSE),
     Line("mention", "", "", 0, FALSE), Line("$$$$", "", "", 0, TRUE)}

\* 'ATOM ...' and 'HETATM ...' records
RecordLines ==
    {Line("ATOM", "A", "ALA", 0, FALSE), Line("ATOM", "B", "ALA", 0, FALSE),
     Line("HETATM", "A", "LIG", 0, FALSE)}

\* '  n  m ...', with and without the 'V2000' tag
CountsLines ==
    {Line("counts", "", "", n, TRUE) : n \in {0, 1, MaxNumAtoms}}
        \cup {Line("counts", "", "", 1, FALSE)}

InputLines == PlainLines \cup RecordLines \cup CountsLines
Contents == UNION {[1..n -> InputLines] : n \in 1..MaxLines}
Formats == {"pdb", "sdf", "auto"}

\* line.startsWith('ATOM') || line.startsWith('HETATM')
StartsWithRecord(line) == line.kind \in {"ATOM", "HETATM"}

\* line.includes('ATOM') || line.includes('HETATM')
IncludesRecord(line) == line.kind \in {"ATOM", "HETATM", "mention"}

\* content.includes('V2000') || content.includes('V3000') || content.includes('$$$$')
IncludesSdfMarker(content) == \E i \in 1..Len(content) : content[i].marker

\* content.includes('ATOM') || content.includes('HETATM')
IncludesAtom(content) == \E i \in 1..Len(content) : IncludesRecord(content[i])

\* lines[i].match(/^\s*\d+\s+\d+/)
MatchesCounts(line) == line.kind = "counts"

Atom(chainId, resName) == [chainId |-> chainId, resName |-> resName]

Thrown(message) == [threw |-> TRUE, message |-> message, lines |-> <<>>]
ReturnedText(lines) == [threw |-> FALSE, message |-> "", lines |-> lines]

\* parsePDB taking every line that contains a record name
RECURSIVE parsePDB_Includes(_)
parsePDB_Includes(lines) ==
    IF lines = <<>> THEN <<>>
    ELSE IF ~IncludesRecord(Head(lines)) THEN parsePDB_Includes(Tail(lines))
    ELSE <<Atom(IF Head(lines).chainId = "" THEN "A" ELSE Head(lines).chainId,
                Head(lines).resName)>> \o parsePDB_Includes(Tail(lines))

RECURSIVE parsePDB(_)
parsePDB(lines) ==
    IF lines = <<>> THEN <<>>
    ELSE IF ~StartsWithRecord(Head(lines)) THEN parsePDB(Tail(lines))
    ELSE <<Atom(IF Head(lines).chainId = "" THEN "A" ELSE Head(lines).chainId,
                Head(lines).resName)>> \o parsePDB(Tail(lines))

\* the atom block: lines[countsLineIndex + 1 + i] for i from 0 to numAtoms - 1
RECURSIVE AtomBlock(_, _, _, _)
AtomBlock(lines, countsLineIndex, i, numAtoms) ==
    IF i >= numAtoms THEN <<>>
    ELSE LET at == countsLineIndex + 1 + i
             rest == AtomBlock(lines, countsLineIndex, i + 1, numAtoms)
         IN  IF at > Len(lines) \/ lines[at].kind = "blank"
             THEN rest
             ELSE <<Atom("A", "LIG")>> \o rest

\* the counts line is looked for from the fourth line on
parseSDF(lines) ==
    LET found == {i \in 4..Len(lines) : MatchesCounts(lines[i])} IN
    IF found = {}
    THEN [threw |-> TRUE, message |-> "Could not find counts line in SDF file",
          atoms |-> <<>>]
    ELSE LET countsLineIndex == Min(found) IN
         [threw |-> FALSE, message |-> "",
          atoms |-> AtomBlock(lines, countsLineIndex, 0,
                              lines[countsLineIndex].numAtoms)]

OutLine(recordType, chainId, resName) ==
    [recordType |-> recordType, chainId |-> chainId, resName |-> resName]

formatPDBQTLine(atom) ==
    OutLine(IF atom.resName = "LIG" THEN "HETATM" ELSE "ATOM  ",
            atom.chainId, atom.resName)

\* the loop of convertPDBtoPDBQT: a TER before each change of chain
RECURSIVE PdbBody(_, _)
PdbBody(atoms, lastChain) ==
    IF atoms = <<>> THEN <<>>
    ELSE (IF lastChain # "" /\ Head(atoms).chainId # lastChain
          THEN <<OutLine("TER", "", "")>> ELSE <<>>)
         \o <<formatPDBQTLine(Head(atoms))>>
         \o PdbBody(Tail(atoms), Head(atoms).chainId)

convertPDBtoPDBQT(pdbContent) ==
    LET atoms == parsePDB(pdbContent) IN
    IF Len(atoms) = 0
    THEN Thrown("No atoms found in PDB file")
    ELSE ReturnedText(<<OutLine("REMARK", "", ""), OutLine("REMARK", "", "")>>
                      \o PdbBody(atoms, "")
                      \o <<OutLine("TER", "", ""), OutLine("END", "", "")>>)

convertSDFtoPDBQT(sdfContent) ==
    LET parsed == parseSDF(sdfContent) IN
    IF parsed.threw THEN Thrown(parsed.message)
    ELSE IF Len(parsed.atoms) = 0
    THEN Thrown("No atoms found in SDF file")
    ELSE ReturnedText(<<OutLine("REMARK", "", ""), OutLine("REMARK", "", ""),
                        OutLine("REMARK", "", ""), OutLine("ROOT", "", "")>>
                      \o [i \in 1..Len(parsed.atoms) |->
                             formatPDBQTLine(parsed.atoms[i])]
                      \o <<OutLine("ENDROOT", "", ""), OutLine("TORSDOF", "", "")>>)

convertToPDBQT(content, format) ==
    LET detectedFormat ==
            IF format # "auto" THEN format
            ELSE IF IncludesSdfMarker(content) THEN "sdf"
            ELSE IF IncludesAtom(content) THEN "pdb"
            ELSE "none"
    IN  IF detectedFormat = "none"
        THEN Thrown("Could not determine file format")
        ELSE IF detectedFormat = "sdf"
        THEN convertSDFtoPDBQT(content)
        ELSE convertPDBtoPDBQT(content)

InitConvert ==
    /\ InitStores
    /\ gbCoords = <<>>
    /\ gbPadding = 0
    /\ gbBox = <<>>
    /\ cvContent \in Contents
    /\ cvResult = <<>>

ConvertToPDBQT(format) ==
    /\ cvResult = <<>>
    /\ cvResult' = <<[format |-> format,
                      outcome |-> convertToPDBQT(cvContent, format)]>>
    /\ UNCHANGED <<cvContent, gbVars, lastOp, simdockVars, pjVars, brVars, rvVars>>

NextConvert == \E format \in Formats : ConvertToPDBQT(format)

SpecConvert == InitConvert /\ [][NextConvert]_vars

\* a line of a PDBQT text that is an atom record
IsAtomLine(line) == line.recordType \in {"ATOM  ", "HETATM"}

AtomLinesOf(lines) == {i \in 1..Len(lines) : IsAtomLine(lines[i])}

\* the lines an SDF reading takes for atoms: the non-blank ones among the
\* numAtoms lines below the first counts line at or after the fourth line
SdfCountsAt(content) == {i \in 4..Len(content) : content[i].kind = "counts"}

SdfAtomLines(content) ==
    LET first == Min(SdfCountsAt(content)) IN
    {i \in (first + 1)..Len(content) :
        /\ i <= first + content[first].numAtoms
        /\ content[i].kind # "blank"}

\* C18, as the specification words it: with format 'auto', a content with
\* 'V2000', 'V3000' or '$$$$' is read as SDF, any other content with 'ATOM'
\* or 'HETATM' as PDB, any other throws 'Could not determine file format';
\* a call that does not return throws 'No atoms found in SDF file' or 'No
\* atoms found in PDB file' according to the format, and a returned text has
\* at least one atom line.
C18_NoAtomsMessage ==
    (Len(cvResult) = 1 /\ cvResult[1].format = "auto") =>
        LET outcome == cvResult[1].outcome IN
        /\ outcome.threw =>
               outcome.message =
                   IF IncludesSdfMarker(cvContent) THEN "No atoms found in SDF file"
                   ELSE IF IncludesAtom(cvContent) THEN "No atoms found in PDB file"
                   ELSE "Could not determine file format"
        /\ ~outcome.threw => AtomLinesOf(outcome.lines) # {}

\* C18: convertToPDBQT with format 'auto'.  A content with 'V2000', 'V3000'
\* or '$$$$' is read as SDF: the call throws 'Could not find counts line in
\* SDF file' when no line from the fourth on is a counts line, 'No atoms
\* found in SDF file' when the atom block below the counts line gives no
\* atom, and otherwise returns one HETATM line per atom of the block.  Any
\* other content with 'ATOM' or 'HETATM' is read as PDB: the call throws 'No
\* atoms found in PDB file' when no line starts with ATOM or HETATM and
\* otherwise returns one atom line per such line.  Any other content throws
\* 'Could not determine file format'.  So every returned text has at least
\* one atom line.
C18_ConvertAuto ==
    (Len(cvResult) = 1 /\ cvResult[1].format = "auto") =>
        LET outcome == cvResult[1].outcome
            records == {i \in 1..Len(cvContent) :
                           cvContent[i].kind \in {"ATOM", "HETATM"}}
        IN
        /\ IF \E i \in 1..Len(cvContent) : cvContent[i].marker
           THEN IF SdfCountsAt(cvContent) = {}
                THEN /\ outcome.threw
                     /\ outcome.message = "Could not find counts line in SDF file"
                ELSE IF SdfAtomLines(cvContent) = {}
                THEN /\ outcome.threw
                     /\ outcome.message = "No atoms found in SDF file"
                ELSE /\ ~outcome.threw
                     /\ Cardinality(AtomLinesOf(outcome.lines))
                            = Cardinality(SdfAtomLines(cvContent))
                     /\ \A i \in AtomLinesOf(outcome.lines) :
                            outcome.lines[i].recordType = "HETATM"
           ELSE IF \E i \in 1..Len(cvContent) :
                       cvContent[i].kind \in {"ATOM", "HETATM", "mention"}
           THEN IF records = {}
                THEN /\ outcome.threw
                     /\ outcome.message = "No atoms found in PDB file"
                ELSE /\ ~outcome.threw
                     /\ Cardinality(AtomLinesOf(outcome.lines)) = Cardinality(records)
           ELSE /\ outcome.threw
                /\ outcome.message = "Could not determine file format"
        /\ ~outcome.threw => AtomLinesOf(outcome.lines) # {}

\* an 'auto' call on a content that names ATOM in a remark only, thrown as a
\* PDB file without atoms
C18_Witness ==
    /\ Len(cvResult) = 1
    /\ cvResult[1].format = "auto"
    /\ \E i \in 1..Len(cvContent) : cvContent[i].kind = "mention"
    /\ ~\E i \in 1..Len(cvContent) : cvContent[i].marker
    /\ cvResult[1].outcome.threw
    /\ cvResult[1].outcome.message = "No atoms found in PDB file"

=============================================================================
